---------------------------- MODULE Spec2Model ----------------------------
(***************************************************************************)
(* A model of src/lib/xmlrpc-message.js: the XMLRPCMessage constructor,    *)
(* xml() and the value renderers it dispatches to, dataTypeOf and          *)
(* dateToISO8601.                                                          *)
(*                                                                         *)
(* A JavaScript value is a record of its kind t and its payload.  A string *)
(* is the sequence of its pieces (a tag, a line feed, a word of text, or a *)
(* single character of a number, a date or an offset); the + of strings is *)
(* \o.  The outcome of a call is a record [state, value]: state is         *)
(* "returned" or "threw", and "none" while the call has not been made.     *)
(***************************************************************************)
EXTENDS Integers, Sequences, FiniteSets, TLC

VARIABLES
  methodname,   \* the first argument the constructor was called with
  method,       \* this.method
  params,       \* this.params
  is_fault,     \* this.is_fault, a field only the caller assigns
  result,       \* what the last xml() call on this message gave, if any
  o,            \* the argument of dataTypeOf / getParamXML
  type,         \* what dataTypeOf(o) gave, if called
  paramXML,     \* what getParamXML(o) gave, if called
  dateIn,       \* the arguments of dateToISO8601
  format,
  offset,
  str           \* what dateToISO8601(dateIn, format, offset) gave, if called

vars == <<methodname, method, params, is_fault, result,
          o, type, paramXML, dateIn, format, offset, str>>

msgVars  == <<methodname, method, params, is_fault, result>>
typeVars == <<o, type, paramXML>>
dateVars == <<dateIn, format, offset, str>>

---------------------------------------------------------------------------
(* Bounds of the model.                                                    *)

\* The parameter list of a message holds at most this many values, counting
\* every array, struct and scalar at every nesting level.
MaxNodes == 3

\* The numbers classified are n/d with |n| <= MaxNum.
MaxNum == 8

\* The offsets given to dateToISO8601 have hours 00..MaxOffsetHour, or 99.
MaxOffsetHour == 14

---------------------------------------------------------------------------
(* JavaScript values.                                                      *)

Undefined    == [t |-> "undefined", absent |-> TRUE]
Null         == [t |-> "null", nil |-> TRUE]
Bool(b)      == [t |-> "boolean", bool |-> b]
\* The string whose pieces are s; Str(<<>>) is the empty string.
Str(s)       == [t |-> "string", str |-> s]
\* The number n/d; d = 0 encodes the non-finite numbers: 1/0 is Infinity,
\* -1/0 is -Infinity and 0/0 is NaN.
Num(n, d)    == [t |-> "number", num |-> <<n, d>>]
IntNum(n)    == Num(n, 1)
\* A Date object.  Its time value, day * MsPerDay + ms milliseconds since the
\* epoch with 0 <= ms < MsPerDay, is kept as the pair <<day, ms>>.
Date(day, ms) == [t |-> "date", date |-> <<day, ms>>]
Arr(elems)   == [t |-> "array", elems |-> elems]
\* An object with the own enumerable properties members[i].k, in the order
\* for..in visits them, and Object as its constructor.
Struct(members) == [t |-> "struct", members |-> members]

NaN         == Num(0, 0)
Infinity    == Num(1, 0)
NegInfinity == Num(-1, 0)

IsFinite(x) == x.num[2] # 0

\* ToBoolean, as applied by ||, ! and if.
Truthy(x) ==
  CASE x.t = "undefined" -> FALSE
    [] x.t = "null"      -> FALSE
    [] x.t = "boolean"   -> x.bool
    [] x.t = "string"    -> x.str # <<>>
    [] x.t = "number"    -> x.num[1] # 0
    [] OTHER             -> TRUE

\* The typeof operator.
TypeOf(x) ==
  CASE x.t \in {"date", "array", "struct", "null"} -> "object"
    [] OTHER -> x.t

DigitChar(k) == <<"0", "1", "2", "3", "4", "5", "6", "7", "8", "9">>[k + 1]

RECURSIVE Digits(_)
Digits(k) == IF k < 10 THEN <<DigitChar(k)>>
             ELSE Digits(k \div 10) \o <<DigitChar(k % 10)>>

RECURSIVE FracDigits(_, _)
FracDigits(r, d) == IF r = 0 THEN <<>>
                    ELSE <<DigitChar((r * 10) \div d)>> \o FracDigits((r * 10) % d, d)

Abs(n) == IF n < 0 THEN -n ELSE n

\* ToString of a number: the shortest decimal that denotes it, so no
\* trailing zero and no '.' when the number is an integer.
NumberToString(x) ==
  LET n == x.num[1]
      d == x.num[2]
  IN IF d = 0
     THEN (IF n = 0 THEN <<"NaN">> ELSE IF n > 0 THEN <<"Infinity">> ELSE <<"-Infinity">>)
     ELSE (IF n < 0 THEN <<"-">> ELSE <<>>)
          \o Digits(Abs(n) \div d)
          \o (IF Abs(n) % d = 0 THEN <<>> ELSE <<".">> \o FracDigits(Abs(n) % d, d))

\* ToString, as applied by + to a string and a value.
ToText(x) ==
  CASE x.t = "string"    -> x.str
    [] x.t = "number"    -> NumberToString(x)
    [] x.t = "boolean"   -> IF x.bool THEN <<"true">> ELSE <<"false">>
    [] x.t = "undefined" -> <<"undefined">>
    [] x.t = "null"      -> <<"null">>
    [] OTHER             -> <<"[object]">>

\* Math.round(x) === x: Math.round is floor(x + 1/2), and keeps a
\* non-finite number as it is; NaN is not === to itself.
MathRoundIsSame(x) ==
  LET n == x.num[1]
      d == x.num[2]
  IN IF d = 0 THEN n # 0
     ELSE ((2 * n + d) \div (2 * d)) * d = n

\* Outcomes of a call that gives a string (a sequence of pieces).
NotCalled    == [state |-> "none", value |-> <<>>]
Returned(x)  == [state |-> "returned", value |-> x]
Threw        == [state |-> "threw", value |-> <<>>]
\* Outcomes of dataTypeOf, which gives a type name.
NoType       == [state |-> "none", value |-> ""]
ThrewType    == [state |-> "threw", value |-> ""]

---------------------------------------------------------------------------
(* Date: the UTC fields of a time value.                                   *)

MsPerMinute == 60 * 1000
MsPerDay    == 24 * 60 * MsPerMinute

\* The civil date of the day number z (days since 1970-01-01), in the
\* proleptic Gregorian calendar, as Date's UTC getters compute it.
CivilFromDays(z) ==
  LET zz  == z + 719468
      era == zz \div 146097
      doe == zz - era * 146097
      yoe == (doe - doe \div 1460 + doe \div 36524 - doe \div 146096) \div 365
      doy == doe - (365 * yoe + yoe \div 4 - yoe \div 100)
      mp  == (5 * doy + 2) \div 153
      dd  == doy - (153 * mp + 2) \div 5 + 1
      mm  == IF mp < 10 THEN mp + 3 ELSE mp - 9
      yy  == yoe + era * 400 + (IF mm <= 2 THEN 1 ELSE 0)
  IN [year |-> yy, month |-> mm, day |-> dd]

\* The time value tv + delta milliseconds.
PlusMs(tv, delta) ==
  <<tv[1] + (tv[2] + delta) \div MsPerDay, (tv[2] + delta) % MsPerDay>>

getUTCFullYear(tv)     == CivilFromDays(tv[1]).year
getUTCMonth(tv)        == CivilFromDays(tv[1]).month - 1
getUTCDate(tv)         == CivilFromDays(tv[1]).day
getUTCHours(tv)        == tv[2] \div (60 * MsPerMinute)
getUTCMinutes(tv)      == (tv[2] \div MsPerMinute) % 60
getUTCSeconds(tv)      == (tv[2] \div 1000) % 60
getUTCMilliseconds(tv) == tv[2] % 1000

---------------------------------------------------------------------------
(* dateToISO8601.                                                          *)

DigitSet == {DigitChar(k) : k \in 0..9}
DigitVal(c) == CHOOSE k \in 0..9 : DigitChar(k) = c

RECURSIVE DigitsToNat(_)
DigitsToNat(cs) == IF cs = <<>> THEN 0
                   ELSE 10 * DigitsToNat(SubSeq(cs, 1, Len(cs) - 1)) + DigitVal(cs[Len(cs)])

RECURSIVE Pow10(_)
Pow10(k) == IF k = 0 THEN 1 ELSE 10 * Pow10(k - 1)

\* Number(s) of a string s of the form digits '.' digits.
NumberOfDecimal(cs) ==
  LET dot  == CHOOSE i \in 1..Len(cs) : cs[i] = "."
      frac == SubSeq(cs, dot + 1, Len(cs))
  IN Num(DigitsToNat(SubSeq(cs, 1, dot - 1)) * Pow10(Len(frac)) + DigitsToNat(frac),
         Pow10(Len(frac)))

\* Whether /([-+])([0-9]{2}):([0-9]{2})/ matches the pieces cs at index i.
OffsetMatchesAt(cs, i) ==
  /\ i + 5 <= Len(cs)
  /\ cs[i] \in {"-", "+"}
  /\ cs[i + 1] \in DigitSet /\ cs[i + 2] \in DigitSet
  /\ cs[i + 3] = ":"
  /\ cs[i + 4] \in DigitSet /\ cs[i + 5] \in DigitSet

\* offset.match(/([-+])([0-9]{2}):([0-9]{2})/): the leftmost match, or null.
OffsetMatch(cs) ==
  IF \E i \in 1..Len(cs) : OffsetMatchesAt(cs, i)
  THEN LET i == CHOOSE j \in 1..Len(cs) :
                  /\ OffsetMatchesAt(cs, j)
                  /\ \A k \in 1..(j - 1) : ~OffsetMatchesAt(cs, k)
       IN [null |-> FALSE, d1 |-> cs[i],
           d2 |-> SubSeq(cs, i + 1, i + 2), d3 |-> SubSeq(cs, i + 4, i + 5)]
  ELSE [null |-> TRUE, d1 |-> "", d2 |-> <<>>, d3 |-> <<>>]

\* num < k and num > k for a number num = n/d and an integer k.
NumLess(num, k)    == IF IsFinite(num) THEN num.num[1] < k * num.num[2] ELSE num.num[1] < 0
NumGreater(num, k) == IF IsFinite(num) THEN num.num[1] > k * num.num[2] ELSE num.num[1] > 0

zeropad(num) == (IF NumLess(num, 10) THEN <<"0">> ELSE <<>>) \o NumberToString(num)

\* shiftedDate with the sign of the offset left out.
shiftedDate_SignIgnored(dateIn_, d) ==
  LET offsetnum == DigitsToNat(d.d2) * 60 + DigitsToNat(d.d3)
  IN PlusMs(dateIn_.date, offsetnum * 60000)

\* The date the fields are read from: dateIn itself, or dateIn moved by the
\* offset.  Only called when the offset matches.
shiftedDate(dateIn_, d) ==
  LET offsetnum == DigitsToNat(d.d2) * 60 + DigitsToNat(d.d3)
      signed    == offsetnum * (IF d.d1 = "-" THEN -1 ELSE 1)
  IN PlusMs(dateIn_.date, signed * 60000)

\* secsField with the milliseconds padded to two digits only.
secsField_TwoDigitMillis(date) ==
  LET ms   == IntNum(getUTCMilliseconds(date))
      secs == NumberOfDecimal(NumberToString(IntNum(getUTCSeconds(date)))
                              \o <<".">>
                              \o zeropad(ms))
  IN <<":">> \o zeropad(secs)

\* The seconds field at format 6.
secsField(date) ==
  LET ms   == IntNum(getUTCMilliseconds(date))
      secs == NumberOfDecimal(NumberToString(IntNum(getUTCSeconds(date)))
                              \o <<".">>
                              \o (IF NumLess(ms, 100) THEN <<"0">> ELSE <<>>)
                              \o zeropad(ms))
  IN <<":">> \o zeropad(secs)

dateToISO8601(dateIn_, format_, offset_) ==
  LET fmt == IF ~Truthy(format_) THEN IntNum(6) ELSE format_
      d   == IF Truthy(offset_) THEN OffsetMatch(offset_.str) ELSE OffsetMatch(<<>>)
      off == IF ~Truthy(offset_) THEN <<"Z">> ELSE offset_.str
  IN IF Truthy(offset_) /\ d.null
     THEN Threw
     ELSE
       LET date == IF ~Truthy(offset_) THEN dateIn_.date ELSE shiftedDate(dateIn_, d)
       IN Returned(
            NumberToString(IntNum(getUTCFullYear(date)))
            \o (IF NumGreater(fmt, 1)
                THEN <<"-">> \o zeropad(IntNum(getUTCMonth(date) + 1)) ELSE <<>>)
            \o (IF NumGreater(fmt, 2)
                THEN <<"-">> \o zeropad(IntNum(getUTCDate(date))) ELSE <<>>)
            \o (IF NumGreater(fmt, 3)
                THEN <<"T">> \o zeropad(IntNum(getUTCHours(date)))
                     \o <<":">> \o zeropad(IntNum(getUTCMinutes(date)))
                ELSE <<>>)
            \o (IF NumGreater(fmt, 5) THEN secsField(date)
                ELSE IF NumGreater(fmt, 4)
                     THEN <<":">> \o zeropad(IntNum(getUTCSeconds(date)))
                     ELSE <<>>)
            \o (IF NumGreater(fmt, 3) THEN off ELSE <<>>))

---------------------------------------------------------------------------
(* dataTypeOf and the renderers.                                           *)

dataTypeOf(o_) ==
  LET ty == TypeOf(o_)
  IN CASE ty = "number" ->
            IF MathRoundIsSame(o_) THEN Returned("i4") ELSE Returned("double")
       [] ty = "object" ->
            \* null has no property constructor: reading it raises a TypeError
            IF o_.t = "null" THEN ThrewType
            ELSE IF o_.t = "date" THEN Returned("date")
            ELSE IF o_.t = "array" THEN Returned("array")
            ELSE Returned("struct")
       [] OTHER -> Returned(ty)

toValueXML(type_, data) ==
  <<"<" \o type_ \o ">">> \o ToText(data) \o <<"</" \o type_ \o ">">>

toBooleanXML(data) ==
  LET value == IF data = Bool(TRUE) THEN IntNum(1) ELSE IntNum(0)
  IN <<"<boolean>">> \o ToText(value) \o <<"</boolean>">>

toDateXML(data) ==
  <<"<dateTime.iso8601>">>
  \o dateToISO8601(data, Undefined, Undefined).value
  \o <<"</dateTime.iso8601>">>

\* What one pass of the loop of toArrayXML appends, r being the rendering of
\* the element.
arrayEntry(r) == <<"<value>">> \o r \o <<"</value>", "\n">>

\* What one pass of the loop of toStructXML appends for the key k.
structMember(k, r) ==
  <<"<member>", "\n">>
  \o <<"<name>">> \o k \o <<"</name>", "\n">>
  \o <<"<value>">> \o r \o <<"</value>", "\n">>
  \o <<"</member>", "\n">>

RECURSIVE getParamXML(_), arrayLoop(_, _, _), structLoop(_, _, _)
RECURSIVE arrayLoop_Backwards(_, _, _)

\* arrayLoop with the elements visited from the last to the first.
arrayLoop_Backwards(data, i, xml_) ==
  IF i > Len(data.elems) THEN Returned(xml_)
  ELSE LET r == getParamXML(data.elems[Len(data.elems) + 1 - i])
       IN IF r.state = "threw" THEN Threw
          ELSE arrayLoop_Backwards(data, i + 1, xml_ \o arrayEntry(r.value))

\* The loop of toArrayXML from index i on (1-based here), xml_ being the
\* string built so far; an exception raised by an element ends the call.
arrayLoop(data, i, xml_) ==
  IF i > Len(data.elems) THEN Returned(xml_)
  ELSE LET r == getParamXML(data.elems[i])
       IN IF r.state = "threw" THEN Threw
          ELSE arrayLoop(data, i + 1, xml_ \o arrayEntry(r.value))

toArrayXML(data) ==
  LET r == arrayLoop(data, 1, <<"<array>", "<data>", "\n">>)
  IN IF r.state = "threw" THEN Threw
     ELSE Returned(r.value \o <<"</data>", "</array>", "\n">>)

structLoop(data, i, xml_) ==
  IF i > Len(data.members) THEN Returned(xml_)
  ELSE LET r == getParamXML(data.members[i].x)
       IN IF r.state = "threw" THEN Threw
          ELSE structLoop(data, i + 1, xml_ \o structMember(data.members[i].k, r.value))

toStructXML(data) ==
  LET r == structLoop(data, 1, <<"<struct>", "\n">>)
  IN IF r.state = "threw" THEN Threw
     ELSE Returned(r.value \o <<"</struct>", "\n">>)

getParamXML(data) ==
  LET ty == dataTypeOf(data)
  IN IF ty.state = "threw" THEN Threw
     ELSE CASE ty.value = "date"    -> Returned(toDateXML(data))
            [] ty.value = "array"   -> toArrayXML(data)
            [] ty.value = "struct"  -> toStructXML(data)
            [] ty.value = "boolean" -> Returned(toBooleanXML(data))
            [] OTHER                -> Returned(toValueXML(ty.value, data))

---------------------------------------------------------------------------
(* The message: constructor and xml().                                     *)

XmlDecl == "<?xml version=\"1.0\"?>"

\* The constructor without the default method name.
XMLRPCMessage_NoDefault(methodname_, params_) ==
  [method |-> methodname_,
   params |-> IF Truthy(params_) THEN params_ ELSE Arr(<<>>)]

XMLRPCMessage(methodname_, params_) ==
  [method |-> IF Truthy(methodname_) THEN methodname_
              ELSE Str(<<"system.listMethods">>),
   params |-> IF Truthy(params_) THEN params_ ELSE Arr(<<>>)]

\* The opening of the document, up to the opening of the envelope.
xmlOpen(method_, is_fault_) ==
  <<XmlDecl, "\n">>
  \o (IF Truthy(method_)
      THEN <<"<methodCall>", "\n">>
           \o <<"<methodName>">> \o ToText(method_) \o <<"</methodName>", "\n">>
      ELSE <<"<methodResponse>", "\n">>)
  \o (IF ~Truthy(is_fault_) THEN <<"<params>", "\n">> ELSE <<"<fault>", "\n">>)

\* paramEntry without the closing </param>.
paramEntry_Unclosed(is_fault_, r) ==
  (IF ~Truthy(is_fault_) THEN <<"<param>", "\n">> ELSE <<>>)
  \o <<"<value>">> \o r \o <<"</value>", "\n">>

\* paramEntry with the <param> wrapper whether or not the message is a fault.
paramEntry_AlwaysWrapped(is_fault_, r) ==
  <<"<param>", "\n">> \o <<"<value>">> \o r \o <<"</value>", "\n">> \o <<"</param>", "\n">>

\* What one pass of the loop of xml() appends, r being the rendering of the
\* parameter.
paramEntry(is_fault_, r) ==
  (IF ~Truthy(is_fault_) THEN <<"<param>", "\n">> ELSE <<>>)
  \o <<"<value>">> \o r \o <<"</value>", "\n">>
  \o (IF ~Truthy(is_fault_) THEN <<"</param>", "\n">> ELSE <<>>)

\* xmlClose with the document closed before the envelope.
xmlClose_DocumentFirst(method_, is_fault_) ==
  (IF Truthy(method_) THEN <<"</methodCall>", "\n">> ELSE <<"</methodResponse>", "\n">>)
  \o (IF ~Truthy(is_fault_) THEN <<"</params>">> ELSE <<"</fault>">>)

\* The closing of the envelope and of the document.
xmlClose(method_, is_fault_) ==
  (IF ~Truthy(is_fault_) THEN <<"</params>", "\n">> ELSE <<"</fault>", "\n">>)
  \o (IF Truthy(method_) THEN <<"</methodCall>">> ELSE <<"</methodResponse>">>)

RECURSIVE paramsLoop(_, _, _, _)
paramsLoop(params_, is_fault_, i, xml_) ==
  IF i > Len(params_.elems) THEN Returned(xml_)
  ELSE LET r == getParamXML(params_.elems[i])
       IN IF r.state = "threw" THEN Threw
          ELSE paramsLoop(params_, is_fault_, i + 1,
                          xml_ \o paramEntry(is_fault_, r.value))

xml(method_, params_, is_fault_) ==
  LET r == paramsLoop(params_, is_fault_, 1, xmlOpen(method_, is_fault_))
  IN IF r.state = "threw" THEN Threw
     ELSE Returned(r.value \o xmlClose(method_, is_fault_))

---------------------------------------------------------------------------
(* The inputs the specifications draw from.                                *)

\* 1997-07-16T19:20:30.450Z, the instant of the examples.
ExampleDate == Date(10058, ((19 * 60 + 20) * 60 + 30) * 1000 + 450)

\* One scalar of every kind; "<param>" is a text that holds markup.  null
\* and undefined are the values that match no known shape.
Scalars ==
  { IntNum(1), Num(3, 2), Bool(TRUE), Str(<<"one">>), Str(<<"<param>">>),
    ExampleDate, Null, Undefined }

Keys == { <<"faultCode">>, <<"faultString">> }

\* The member lists that give the values of f distinct keys of ks, in order.
RECURSIVE MemberLists(_, _)
MemberLists(f, ks) ==
  IF f = <<>> THEN { <<>> }
  ELSE UNION { { <<[k |-> k, x |-> Head(f)]>> \o m : m \in MemberLists(Tail(f), ks \ {k}) }
               : k \in ks }

\* The values of exactly n nodes, and the lists of values of n nodes in all;
\* a node is a scalar, an array or a struct.
RECURSIVE ValuesOfSize(_), ForestsOfSize(_)
ValuesOfSize(n) ==
  IF n = 1 THEN Scalars \cup { Arr(<<>>), Struct(<<>>) }
  ELSE { Arr(f) : f \in ForestsOfSize(n - 1) }
       \cup UNION { { Struct(m) : m \in MemberLists(f, Keys) } : f \in ForestsOfSize(n - 1) }

ForestsOfSize(n) ==
  IF n = 0 THEN { <<>> }
  ELSE UNION { { <<x>> \o f : x \in ValuesOfSize(k), f \in ForestsOfSize(n - k) }
               : k \in 1..n }

ParamLists == UNION { ForestsOfSize(n) : n \in 0..MaxNodes }

\* The constructor's arguments: no method name, the empty name, a name; no
\* parameter list, or a list.
MethodNames == { Undefined, Str(<<>>), Str(<<"test.echo">>) }
ParamArgs   == { Undefined } \cup { Arr(f) : f \in ParamLists }

---------------------------------------------------------------------------
(* Specification Spec: a message is constructed, the caller may mark it a  *)
(* fault or clear its method name (which makes it a response), and xml()   *)
(* renders it.                                                             *)

MsgIdle ==
  /\ methodname = Undefined /\ method = Undefined /\ params = Arr(<<>>)
  /\ is_fault = Undefined /\ result = NotCalled

TypeIdle == o = Undefined /\ type = NoType /\ paramXML = NotCalled

DateIdle ==
  /\ dateIn = ExampleDate /\ format = Undefined /\ offset = Undefined
  /\ str = NotCalled

\* new XMLRPCMessage(methodname, params)
MsgInit ==
  /\ methodname \in MethodNames
  /\ \E p \in ParamArgs :
       /\ method = XMLRPCMessage(methodname, p).method
       /\ params = XMLRPCMessage(methodname, p).params
  /\ is_fault = Undefined
  /\ result = NotCalled

Init == MsgInit /\ TypeIdle /\ DateIdle

\* msg.xml()
Xml ==
  /\ result' = xml(method, params, is_fault)
  /\ UNCHANGED <<methodname, method, params, is_fault, typeVars, dateVars>>

\* msg.is_fault = true: the caller marks the message a fault.
SetIsFault ==
  /\ is_fault' = Bool(TRUE)
  /\ result' = NotCalled
  /\ UNCHANGED <<methodname, method, params, typeVars, dateVars>>

\* msg.method = undefined: the caller makes the message a response.
ClearMethod ==
  /\ method' = Undefined
  /\ result' = NotCalled
  /\ UNCHANGED <<methodname, params, is_fault, typeVars, dateVars>>

Next == Xml \/ SetIsFault \/ ClearMethod

Spec == Init /\ [][Next]_vars

---------------------------------------------------------------------------
(* Specification SpecClassify: dataTypeOf and getParamXML are applied to   *)
(* one value.                                                              *)

\* The finite numbers n/d, and the three numbers that are not finite.
Numbers ==
  { Num(n, d) : n \in (-MaxNum)..MaxNum, d \in {1, 2, 4, 10} }
  \cup { NaN, Infinity, NegInfinity }

ClassifyInputs ==
  Numbers \cup { Bool(TRUE), Bool(FALSE), Str(<<>>) }
  \cup UNION { ValuesOfSize(n) : n \in 1..MaxNodes }

ClassifyInit ==
  /\ o \in ClassifyInputs
  /\ type = NoType
  /\ paramXML = NotCalled

InitClassify == ClassifyInit /\ MsgIdle /\ DateIdle

\* msg.dataTypeOf(o)
DataTypeOf ==
  /\ type' = dataTypeOf(o)
  /\ UNCHANGED <<o, paramXML, msgVars, dateVars>>

\* msg.getParamXML(o)
GetParamXML ==
  /\ paramXML' = getParamXML(o)
  /\ UNCHANGED <<o, type, msgVars, dateVars>>

NextClassify == DataTypeOf \/ GetParamXML

SpecClassify == InitClassify /\ [][NextClassify]_vars

---------------------------------------------------------------------------
(* Specifications SpecDate and SpecSeconds: dateToISO8601 is applied to a  *)
(* date, a format and an offset.                                           *)

TwoDigits(k) == <<DigitChar(k \div 10), DigitChar(k % 10)>>

\* The string sign hh ':' mm.
OffsetString(sign, hh, mm) == Str(<<sign>> \o TwoDigits(hh) \o <<":">> \o TwoDigits(mm))

\* No offset, the designator "Z" given explicitly, and offsets +-hh:mm.
Offsets ==
  { Undefined, Str(<<"Z">>) }
  \cup { OffsetString(sign, hh, mm) :
           sign \in {"+", "-"}, hh \in (0..MaxOffsetHour) \cup {99}, mm \in {0, 30, 45, 99} }

\* No format, and the formats 0..7 (1..6 are the documented ones).
Formats == { Undefined } \cup { IntNum(k) : k \in 0..7 }

\* Days at the ends of years, of months and of February in leap and common
\* years (1969-12-31, 1970-01-01, 1970-02-28, 1970-03-01, 1997-07-16,
\* 1999-12-31, 2000-01-01, 2000-02-28, 2000-02-29, 2000-03-01), at times of
\* day at the ends of the day, of an hour and inside the day.
DateInputs ==
  { Date(day, ms) :
      day \in {-1, 0, 58, 59, 10058, 10956, 10957, 11015, 11016, 11017},
      ms  \in {0, 5, 30 * MsPerMinute + 50, ExampleDate.date[2], MsPerDay - 1} }

DateInit ==
  /\ dateIn \in DateInputs
  /\ format \in Formats
  /\ offset \in Offsets
  /\ str = NotCalled

InitDate == DateInit /\ MsgIdle /\ TypeIdle

\* msg.dateToISO8601(dateIn, format, offset)
DateToISO8601 ==
  /\ str' = dateToISO8601(dateIn, format, offset)
  /\ UNCHANGED <<dateIn, format, offset, msgVars, typeVars>>

NextDate == DateToISO8601

SpecDate == InitDate /\ [][NextDate]_vars

\* Every instant of one minute, 1997-07-16T19:20:00.000 to 19:20:59.999, at
\* format 6 (given, or by default) with no offset.
SecondsInit ==
  /\ dateIn \in { Date(10058, (19 * 60 + 20) * MsPerMinute + k) : k \in 0..(MsPerMinute - 1) }
  /\ format \in { Undefined, IntNum(6) }
  /\ offset = Undefined
  /\ str = NotCalled

InitSeconds == SecondsInit /\ MsgIdle /\ TypeIdle

SpecSeconds == InitSeconds /\ [][NextDate]_vars

---------------------------------------------------------------------------
(* Vocabulary of the properties.                                           *)

TagNames ==
  { "methodCall", "methodName", "methodResponse", "params", "param", "fault",
    "value", "i4", "double", "boolean", "string", "dateTime.iso8601",
    "array", "data", "struct", "member", "name" }

OpenTags  == { "<" \o n \o ">" : n \in TagNames }
CloseTags == { "</" \o n \o ">" : n \in TagNames }

\* The closing tag of each opening tag.
CloseOf ==
  [ p \in OpenTags |->
      CHOOSE c \in CloseTags : \E n \in TagNames : p = "<" \o n \o ">" /\ c = "</" \o n \o ">" ]

\* A text holds markup when one of its pieces reads as a tag.
HasMarkup(pieces) == \E i \in 1..Len(pieces) : pieces[i] \in OpenTags \cup CloseTags

\* x is a value of the data model: an integer, a double, a boolean, a
\* string, a date, or an array or a struct of such values.
RECURSIVE IsModelValue(_)
IsModelValue(x) ==
  CASE x.t \in {"boolean", "string", "date"} -> TRUE
    [] x.t = "number" -> IsFinite(x)
    [] x.t = "array"  -> \A i \in 1..Len(x.elems) : IsModelValue(x.elems[i])
    [] x.t = "struct" -> \A i \in 1..Len(x.members) : IsModelValue(x.members[i].x)
    [] OTHER -> FALSE

\* No text and no key of x holds markup.
RECURSIVE MarkupFree(_)
MarkupFree(x) ==
  CASE x.t = "string" -> ~HasMarkup(x.str)
    [] x.t = "array"  -> \A i \in 1..Len(x.elems) : MarkupFree(x.elems[i])
    [] x.t = "struct" -> \A i \in 1..Len(x.members) :
                            ~HasMarkup(x.members[i].k) /\ MarkupFree(x.members[i].x)
    [] OTHER -> TRUE

\* The nesting depth of containers in x.
RECURSIVE Depth(_)
Depth(x) ==
  LET Max(S) == CHOOSE m \in S : \A k \in S : k <= m
  IN CASE x.t = "array"  -> 1 + Max({0} \cup { Depth(x.elems[i]) : i \in 1..Len(x.elems) })
       [] x.t = "struct" -> 1 + Max({0} \cup { Depth(x.members[i].x) : i \in 1..Len(x.members) })
       [] OTHER -> 0

\* The scan of a document keeps the stack of the tags still open (innermost
\* first) and counts the tags child opened directly inside a parent; ok is
\* FALSE once a closing tag did not match the innermost open tag.  ScanStep
\* reads one piece.
ScanStep(s, p, parent, child) ==
  IF ~s.ok THEN s
  ELSE IF p \in OpenTags
       THEN [ok |-> TRUE, open |-> <<p>> \o s.open,
             kids |-> IF p = child /\ s.open # <<>> /\ Head(s.open) = parent
                      THEN s.kids + 1 ELSE s.kids]
       ELSE IF p \in CloseTags
            THEN IF s.open # <<>> /\ CloseOf[Head(s.open)] = p
                 THEN [s EXCEPT !.open = Tail(s.open)]
                 ELSE [s EXCEPT !.ok = FALSE]
            ELSE s

\* The scan of the pieces x[lo..hi], in order, from the state s.
RECURSIVE ScanRange(_, _, _, _, _, _)
ScanRange(x, lo, hi, s, parent, child) ==
  IF lo > hi THEN s
  ELSE IF lo = hi THEN ScanStep(s, x[lo], parent, child)
  ELSE LET mid  == (lo + hi) \div 2
           left == ScanRange(x, lo, mid, s, parent, child)
       IN IF left.ok THEN ScanRange(x, mid + 1, hi, left, parent, child) ELSE left

Scan(x, parent, child) ==
  ScanRange(x, 1, Len(x), [ok |-> TRUE, open |-> <<>>, kids |-> 0], parent, child)

WellNested(x) == LET r == Scan(x, "", "") IN r.ok /\ r.open = <<>>

\* How many child elements are opened directly inside a parent element.
DirectChildren(x, parent, child) == Scan(x, parent, child).kids

Occurs(x, piece) == \E i \in 1..Len(x) : x[i] = piece

\* xml() has been called on the message as it is now.
Called   == result.state # "none"
Rendered == result.state = "returned"

\* The method name is the one the constructor stored.
MethodAsConstructed == method = XMLRPCMessage(methodname, params).method

IsCallDocument(x, name) ==
  /\ Len(x) >= Len(name) + 7
  /\ SubSeq(x, 1, 5) = <<XmlDecl, "\n", "<methodCall>", "\n", "<methodName>">>
  /\ SubSeq(x, 6, 5 + Len(name)) = name
  /\ x[6 + Len(name)] = "</methodName>"
  /\ x[Len(x)] = "</methodCall>"
  /\ ~Occurs(x, "<methodResponse>") /\ ~Occurs(x, "</methodResponse>")

IsResponseDocument(x) ==
  /\ Len(x) >= 4
  /\ SubSeq(x, 1, 3) = <<XmlDecl, "\n", "<methodResponse>">>
  /\ x[Len(x)] = "</methodResponse>"
  /\ ~Occurs(x, "<methodCall>") /\ ~Occurs(x, "</methodCall>")
  /\ ~Occurs(x, "<methodName>") /\ ~Occurs(x, "</methodName>")

---------------------------------------------------------------------------
(* Properties of the message (specification Spec).                         *)

\* C1, as stated: a message built with a method name renders as a call
\* document naming it, and a message built with no method name renders as a
\* response document with no methodCall and no methodName element.
C1_CallOrResponseAsBuilt ==
  (Rendered /\ MethodAsConstructed) =>
    /\ Truthy(methodname) => IsCallDocument(result.value, ToText(methodname))
    /\ methodname = Undefined => IsResponseDocument(result.value)

\* C1, amended: a message built with a method name renders as a call
\* document naming it; a message built with no method name (or the empty
\* one) renders as a call document naming system.listMethods; a response
\* document is what is rendered once the method field has been cleared.
C1_CallUnlessMethodCleared ==
  Rendered =>
    /\ MethodAsConstructed =>
         IsCallDocument(result.value,
                        IF Truthy(methodname) THEN ToText(methodname)
                        ELSE <<"system.listMethods">>)
    /\ ~Truthy(method) => IsResponseDocument(result.value)
    /\ Truthy(method) => IsCallDocument(result.value, ToText(method))

C1_Witness ==
  /\ Rendered /\ MethodAsConstructed /\ methodname = Undefined
  /\ IsCallDocument(result.value, <<"system.listMethods">>)

\* C5, as stated: xml() never raises, whatever the parameter values, null
\* and undefined included, at top level or nested.
C5_XmlNeverThrows == result.state # "threw"

AllModelValues == \A i \in 1..Len(params.elems) : IsModelValue(params.elems[i])
AllMarkupFree  == \A i \in 1..Len(params.elems) : MarkupFree(params.elems[i])

\* The renderings of the values elems, in order.
Renderings(elems) == [ i \in 1..Len(elems) |-> getParamXML(elems[i]).value ]

\* The number of pieces of the first i of the strings rs.
RECURSIVE SumLen(_, _)
SumLen(rs, i) == IF i = 0 THEN 0 ELSE SumLen(rs, i - 1) + Len(rs[i])

\* The index of the first piece of x that is piece.
IndexOf(x, piece) == CHOOSE i \in 1..Len(x) : x[i] = piece /\ \A j \in 1..(i - 1) : x[j] # piece

\* C2: for a message that is not a fault, with n parameters, the document
\* holds <params>, then n blocks <param><value>R</value></param> where the
\* R of the i-th block is the rendering of the i-th parameter, then
\* </params> and the closing tag of the document, and nothing else; the
\* rendering of a string parameter is its text as it is, in <string> tags.
C2_ParamBlocksInOrder ==
  (Called /\ ~Truthy(is_fault) /\ AllModelValues) =>
    /\ Rendered
    /\ Occurs(result.value, "<params>")
    /\ LET x     == result.value
           n     == Len(params.elems)
           R     == Renderings(params.elems)
           first == IndexOf(x, "<params>") + 2
           at(i) == first + 7 * (i - 1) + SumLen(R, i - 1)
       IN /\ \A i \in 1..n :
                /\ SubSeq(x, at(i), at(i) + 2) = <<"<param>", "\n", "<value>">>
                /\ SubSeq(x, at(i) + 3, at(i) + 2 + Len(R[i])) = R[i]
                /\ SubSeq(x, at(i) + 3 + Len(R[i]), at(i) + 6 + Len(R[i]))
                     = <<"</value>", "\n", "</param>", "\n">>
                /\ params.elems[i].t = "string" =>
                     R[i] = <<"<string>">> \o params.elems[i].str \o <<"</string>">>
          /\ Len(x) = at(n + 1) + 2
          /\ x[at(n + 1)] = "</params>"
          /\ x[at(n + 1) + 1] = "\n"
          /\ x[at(n + 1) + 2] \in {"</methodCall>", "</methodResponse>"}

\* A call of two parameters, the first a text that holds markup.
C2_Witness ==
  /\ Rendered /\ ~Truthy(is_fault) /\ AllModelValues
  /\ Len(params.elems) = 2
  /\ params.elems[1] = Str(<<"<param>">>)
  /\ params.elems[2].t # "string"

\* C3, as stated: whatever parameter list a fault message holds, its body
\* is <fault>...</fault> with a single <value> directly inside, and the
\* document has no <param> and no <params> element.
C3_FaultHoldsSingleValue ==
  (Called /\ Truthy(is_fault) /\ AllModelValues /\ AllMarkupFree) =>
    /\ Rendered
    /\ WellNested(result.value)
    /\ DirectChildren(result.value, "<fault>", "<value>") = 1
    /\ ~Occurs(result.value, "<param>") /\ ~Occurs(result.value, "</param>")
    /\ ~Occurs(result.value, "<params>") /\ ~Occurs(result.value, "</params>")

\* C3, amended: a fault message whose parameters are values of the data
\* model without markup renders one <fault> element, with one <value>
\* directly inside it for each parameter (so a single one when the list
\* holds exactly one parameter), and no <param> and no <params> element.
C3_FaultHoldsOneValuePerParam ==
  (Called /\ Truthy(is_fault) /\ AllModelValues /\ AllMarkupFree) =>
    /\ Rendered
    /\ WellNested(result.value)
    /\ DirectChildren(result.value, "<methodCall>", "<fault>")
         + DirectChildren(result.value, "<methodResponse>", "<fault>") = 1
    /\ DirectChildren(result.value, "<fault>", "<value>") = Len(params.elems)
    /\ ~Occurs(result.value, "<param>") /\ ~Occurs(result.value, "</param>")
    /\ ~Occurs(result.value, "<params>") /\ ~Occurs(result.value, "</params>")

\* A fault response holding one struct of two members.
C3_Witness ==
  /\ Rendered /\ Truthy(is_fault) /\ ~Truthy(method)
  /\ Len(params.elems) = 1
  /\ params.elems[1].t = "struct" /\ Len(params.elems[1].members) = 2
  /\ AllModelValues /\ AllMarkupFree
  /\ DirectChildren(result.value, "<fault>", "<value>") = 1

\* C10: when no text and no key of the message holds markup, the tags of
\* the document are properly nested: every closing tag closes the innermost
\* open tag, and no tag is left open at the end.
C10_TagsProperlyNested ==
  (Called /\ AllModelValues /\ AllMarkupFree) =>
    /\ Rendered
    /\ WellNested(result.value)

\* A document with a container inside a container.
C10_Witness ==
  /\ Rendered /\ AllModelValues /\ AllMarkupFree
  /\ \E i \in 1..Len(params.elems) : Depth(params.elems[i]) >= 2
  /\ WellNested(result.value)

---------------------------------------------------------------------------
(* Properties of classification and of arrays (specification               *)
(* SpecClassify).                                                          *)

\* A number is integer-valued when it is finite and a whole number.
IsIntegerValued(x) == IsFinite(x) /\ x.num[1] % x.num[2] = 0

\* C4, as stated: dataTypeOf gives i4 to every number that is
\* integer-valued and double to every number that is not, and getParamXML
\* names the element accordingly.
C4_IntegerIffI4 ==
  o.t = "number" =>
    /\ type.state # "none" =>
         type = Returned(IF IsIntegerValued(o) THEN "i4" ELSE "double")
    /\ paramXML.state # "none" =>
         /\ paramXML.state = "returned"
         /\ paramXML.value[1] = (IF IsIntegerValued(o) THEN "<i4>" ELSE "<double>")

TypeTags == { "i4", "double", "boolean", "date", "array", "struct", "string" }

ScalarElements == { "<i4>", "<double>", "<boolean>", "<string>", "<dateTime.iso8601>" }

\* C8, as stated: dataTypeOf gives one of the seven type tags to every
\* value, and struct to every value that is not a number, a boolean, a
\* date, an array or a text; so getParamXML emits, for a value that is not
\* an array or a struct, one of the five scalar elements.
C8_ClassificationClosed ==
  /\ type.state # "none" =>
       /\ type.state = "returned"
       /\ type.value \in TypeTags
       /\ o.t \notin {"number", "boolean", "date", "array", "string"} => type.value = "struct"
  /\ (paramXML.state # "none" /\ o.t \notin {"array", "struct"}) =>
       /\ paramXML.state = "returned"
       /\ paramXML.value[1] \in ScalarElements

\* C7: an array of n values of the data model renders as <array><data>,
\* then n entries <value>R</value> where the R of the i-th entry is the
\* rendering of the i-th element, then </data></array>, and nothing else;
\* as elements are rendered by getParamXML, this holds at every depth.
C7_ArrayEntriesInOrder ==
  (paramXML.state # "none" /\ o.t = "array" /\ IsModelValue(o)) =>
    /\ paramXML.state = "returned"
    /\ LET x      == paramXML.value
           n      == Len(o.elems)
           R      == Renderings(o.elems)
           end(i) == 3 + 3 * i + SumLen(R, i)
       IN /\ SubSeq(x, 1, 3) = <<"<array>", "<data>", "\n">>
          /\ \A i \in 1..n :
                /\ x[end(i - 1) + 1] = "<value>"
                /\ SubSeq(x, end(i - 1) + 2, end(i) - 2) = R[i]
                /\ SubSeq(x, end(i) - 1, end(i)) = <<"</value>", "\n">>
          /\ Len(x) = end(n) + 3
          /\ SubSeq(x, end(n) + 1, end(n) + 3) = <<"</data>", "</array>", "\n">>

\* An array of two different elements, the second an array itself.
C7_Witness ==
  /\ paramXML.state = "returned"
  /\ o = Arr(<<IntNum(1), Arr(<<>>)>>)

---------------------------------------------------------------------------
(* Properties of dateToISO8601 (specifications SpecDate and SpecSeconds).  *)

\* The day number of the civil date y-m-d: the inverse of CivilFromDays.
DaysFromCivil(y, m, d) ==
  LET yy  == IF m <= 2 THEN y - 1 ELSE y
      era == yy \div 400
      yoe == yy - era * 400
      mp  == IF m > 2 THEN m - 3 ELSE m + 9
      doy == (153 * mp + 2) \div 5 + d - 1
      doe == yoe * 365 + yoe \div 4 - yoe \div 100 + doy
  IN era * 146097 + doe - 719468

AllDigits(cs) == \A i \in 1..Len(cs) : cs[i] \in DigitSet

\* The number the two digits at i and i + 1 of s denote.
Field(s, i) == DigitsToNat(SubSeq(s, i, i + 1))

\* The level of precision asked for: 6 when no format is given.
Level == IF format = Undefined THEN 6 ELSE format.num[1]

\* The offset is of the form +hh:mm or -hh:mm.
OffsetGiven ==
  /\ offset # Undefined
  /\ Len(offset.str) = 6
  /\ OffsetMatchesAt(offset.str, 1)

\* The minutes the offset moves the instant by.
OffsetMinutes ==
  IF OffsetGiven
  THEN (IF offset.str[1] = "-" THEN -1 ELSE 1) * (Field(offset.str, 2) * 60 + Field(offset.str, 5))
  ELSE 0

\* The instant the fields are to be those of, as a day number and the
\* minute of that day.
LocalMinute == dateIn.date[1] * (24 * 60) + dateIn.date[2] \div MsPerMinute + OffsetMinutes
LocalDay    == LocalMinute \div (24 * 60)

\* s starts with the year YYYY of the day dd, and to the level given with
\* -MM, -DD and Thh:mm of the minute mn.
DateFieldsAre(s, level, dd, mn) ==
  /\ Len(s) >= 4 /\ AllDigits(SubSeq(s, 1, 4))
  /\ LET y == DigitsToNat(SubSeq(s, 1, 4))
     IN /\ DaysFromCivil(y, 1, 1) <= dd /\ dd < DaysFromCivil(y + 1, 1, 1)
        /\ level >= 2 =>
             /\ Len(s) >= 7 /\ s[5] = "-" /\ AllDigits(SubSeq(s, 6, 7))
             /\ Field(s, 6) \in 1..12
             /\ DaysFromCivil(y, Field(s, 6), 1) <= dd
             /\ dd < (IF Field(s, 6) = 12 THEN DaysFromCivil(y + 1, 1, 1)
                                          ELSE DaysFromCivil(y, Field(s, 6) + 1, 1))
        /\ level >= 3 =>
             /\ Len(s) >= 10 /\ s[8] = "-" /\ AllDigits(SubSeq(s, 9, 10))
             /\ Field(s, 9) >= 1
             /\ DaysFromCivil(y, Field(s, 6), Field(s, 9)) = dd
        /\ level >= 4 =>
             /\ Len(s) >= 16 /\ s[11] = "T" /\ AllDigits(SubSeq(s, 12, 13))
             /\ s[14] = ":" /\ AllDigits(SubSeq(s, 15, 16))
             /\ Field(s, 12) < 24 /\ Field(s, 15) < 60
             /\ dd * (24 * 60) + Field(s, 12) * 60 + Field(s, 15) = mn

\* The seconds of s, from index 17, are ':' and the seconds sec as two
\* digits, then the milliseconds ms as a decimal fraction without trailing
\* zeros (nothing when ms = 0), up to index last.
SecondsAre(s, sec, ms, last) ==
  /\ last >= 19 /\ s[17] = ":" /\ AllDigits(SubSeq(s, 18, 19)) /\ Field(s, 18) = sec
  /\ IF ms = 0 THEN last = 19
     ELSE LET frac == SubSeq(s, 21, last)
          IN /\ s[20] = "."
             /\ Len(frac) \in 1..3 /\ AllDigits(frac)
             /\ frac[Len(frac)] # "0"
             /\ DigitsToNat(frac) * Pow10(3 - Len(frac)) = ms

\* C9: with an offset +hh:mm or -hh:mm, the fields of the result are those
\* of the instant moved by the signed hh * 60 + mm minutes, and at levels 4
\* to 6 the result ends with the offset as given; with no offset, the fields
\* are those of the instant and the result ends with Z.  At levels 1 to 3
\* the result has no designator.
C9_FieldsOfShiftedInstant ==
  (str.state # "none" /\ (OffsetGiven \/ offset = Undefined) /\ Level \in 1..6) =>
    /\ str.state = "returned"
    /\ LET s    == str.value
           zone == IF OffsetGiven THEN offset.str ELSE <<"Z">>
           body == Len(s) - (IF Level >= 4 THEN Len(zone) ELSE 0)
       IN /\ DateFieldsAre(s, Level, LocalDay, LocalMinute)
          /\ Level = 1 => Len(s) = 4
          /\ Level = 2 => Len(s) = 7
          /\ Level = 3 => Len(s) = 10
          /\ Level >= 4 => SubSeq(s, body + 1, Len(s)) = zone
          /\ Level = 4 => body = 16
          /\ Level >= 5 =>
               SecondsAre(s, getUTCSeconds(dateIn.date),
                          IF Level = 6 THEN getUTCMilliseconds(dateIn.date) ELSE 0, body)

\* 1970-01-01T00:00:00.005 with a negative offset: the result is in 1969.
C9_Witness ==
  /\ str.state = "returned"
  /\ dateIn = Date(0, 5) /\ OffsetGiven /\ offset.str[1] = "-" /\ Level = 6
  /\ SubSeq(str.value, 1, 10) = <<"1", "9", "6", "9", "-", "1", "2", "-", "3", "1">>

=============================================================================
